---- MODULE Spec2Model ----
(***************************************************************************)
(* The resilient connection layer of mcp_python_sdk: Connection            *)
(* (mcp_sdk/connection.py) and MCPClient (mcp_sdk/client.py).              *)
(*                                                                         *)
(* Every coroutine is cut at its awaits of the transport (websockets       *)
(* connect, send, recv, close and asyncio.sleep): the code between two     *)
(* awaits runs atomically on the event loop, so it is one step.  A task's  *)
(* pc names the source line of connection.py whose await it is suspended   *)
(* at.  The transport is the environment: it completes each awaited        *)
(* operation with a result it chooses.                                     *)
(***************************************************************************)
EXTENDS Integers, Sequences, FiniteSets, TLC

\* ---------------------------------------------------------------- bounds
MaxCalls == 3      \* API calls started since construction
MaxFail == 2       \* refused connects inside one reconnect loop
MaxConcurrentCalls == 2  \* API calls started by interleaving tasks
MaxConcurrentFail == 1   \* refused connects of one loop among interleaving tasks

Tasks == {1, 2}    \* tasks that use the one Connection
Msgs == {"Hello", "World"}
Delays == {1, 5}   \* reconnect_delay given at construction (5 is the default)

None == 0          \* websocket: Optional[...] = None
NoValue == "None"  \* a coroutine that returns nothing

\* What the transport can answer to an awaited operation: it returns, it
\* raises websockets.exceptions.WebSocketException (or a subclass), or it
\* raises an exception outside that hierarchy (OSError, ...).
Outcomes == {"ok", "WebSocketException", "OtherError"}

VARIABLES
    websocket,        \* Connection.websocket: None or the socket object
    is_connected,     \* Connection._is_connected
    reconnect_delay,  \* Connection.reconnect_delay
    sock_count,       \* sockets the transport has opened so far (ids 1..sock_count)
    closed,           \* sockets whose close() has completed
    call_count,       \* calls of each transport operation since construction
    api_calls,        \* calls of the Client made by its users since construction
    pc,               \* per task: "idle", the line awaited at, or "done"
    method,           \* per task: the MCPClient method its user has called
    op,               \* per task: the Connection method running
    text,             \* per task: argument of MCPClient.send_message
    message,          \* per task: argument of Connection.send
    log,              \* per task: transport operations of the running call
    exc,              \* per task: exception the call raised ("none" if it returned)
    ret,              \* per task: value the call returned
    scope,            \* per task: position in `async with client`
    pending,          \* per task: exception raised by the body of the scope
    scope_log,        \* per task: what the scope has done so far
    mode,             \* "sequential": one call at a time; "concurrent": tasks interleave
    link              \* history: what the transport last showed of the connection

conn_vars == <<websocket, is_connected, reconnect_delay>>
transport_vars == <<sock_count, closed>>
task_vars == <<pc, method, op, text, message, log, exc, ret>>
scope_vars == <<scope, pending, scope_log>>
user_vars == <<scope, pending, scope_log, mode>>
vars == <<websocket, is_connected, reconnect_delay, sock_count, closed,
          call_count, api_calls, pc, method, op, text, message, log, exc, ret,
          scope, pending, scope_log, mode, link>>

\* ----------------------------------------------------------- the call log
Event(c, s, a, d) ==
    [call |-> c, sock |-> s, arg |-> a, delay |-> d, res |-> "pending", val |-> NoValue]

Last(s) == s[Len(s)]

Completed_unawaited(l, r, v) == l

\* The log with its last (awaited) operation completed with result r, value v.
Completed(l, r, v) == [l EXCEPT ![Len(l)].res = r, ![Len(l)].val = v]

RECURSIVE Count(_, _)
Count(l, c) ==
    IF l = <<>> THEN 0
    ELSE (IF Last(l).call = c THEN 1 ELSE 0) + Count(SubSeq(l, 1, Len(l) - 1), c)

\* ------------------------------------------------------------- MCPClient
Serialize_message_framed(m) == IF m = "Hello" THEN "World" ELSE "Hello"

\* MCPClient._serialize_message (client.py lines 22-33)
Serialize_message(m) == m

Process_message_framed(m) == IF m = "Hello" THEN "World" ELSE "Hello"

\* MCPClient._process_message (client.py lines 35-46)
Process_message(m) == m

Delegated_crossed(m) ==
    CASE m \in {"connect", "__aenter__"} -> "disconnect"
      [] m \in {"disconnect", "__aexit__"} -> "connect"
      [] m = "send_message" -> "send"
      [] OTHER -> "recv"

\* The Connection method a method of MCPClient awaits (client.py lines 16, 20,
\* 51, 55; __aenter__ and __aexit__ through connect() and disconnect(),
\* lines 59 and 63).
Delegated(m) ==
    CASE m \in {"connect", "__aenter__"} -> "connect"
      [] m \in {"disconnect", "__aexit__"} -> "disconnect"
      [] m = "send_message" -> "send"
      [] OTHER -> "recv"

\* ------------------------------------------------------ steps of a task
SetTask(t, p, e, v, l) ==
    /\ pc' = [pc EXCEPT ![t] = p]
    /\ exc' = [exc EXCEPT ![t] = e]
    /\ ret' = [ret EXCEPT ![t] = v]
    /\ log' = [log EXCEPT ![t] = l]

Counted(c) == call_count' = [call_count EXCEPT ![c] = @ + 1]

\* The call of task t is over: it returned v (e = "none") or raised e.
Finish(t, e, v, l) == SetTask(t, "done", e, v, l) /\ UNCHANGED call_count

\* Task t starts a transport operation and is suspended at line p.
Await(t, p, l, ev, c) == SetTask(t, p, "none", NoValue, Append(l, ev)) /\ Counted(c)

\* A task whose result (or whose scope's result) is being handed to its caller:
\* nothing else runs on the event loop between a return and its caller.
Observing(u) == pc[u] = "done"

Runs(t) == \A u \in Tasks \ {t} : ~Observing(u)

\* ------------------------------------------------------------ Connection
ConnectReturnsEarly_never(c) == FALSE

\* connect(), line 22
ConnectReturnsEarly(c) == c

DisconnectReturnsEarly_socketonly(c, w) == w = None

\* disconnect(), line 33
DisconnectReturnsEarly(c, w) == ~c \/ w = None

NotConnected_socketonly(c, w) == w = None

\* send() and recv(), lines 41 and 53
NotConnected(c, w) == ~c \/ w = None

ConnectRaises_unwrapped(r) == r

\* connect(), lines 25-29: what connect() raises when the transport raised r
ConnectRaises(r) == IF r = "WebSocketException" THEN "ConnectionError" ELSE r

Swallowed_never(e) == FALSE

\* _reconnect(), lines 70-71: the exceptions of an iteration that are swallowed
Swallowed(e) == e = "ConnectionError"

FlagAfterConnect_unset == FALSE

\* connect(), line 27: _is_connected after the transport connect has succeeded
FlagAfterConnect == TRUE

FlagAfterFailure_stays == TRUE

\* send() and recv(), lines 47 and 59: _is_connected after the first failure
FlagAfterFailure == FALSE

FlagAfterRetry_cleared(c, r) == IF r = "ok" THEN c ELSE FALSE

\* send() and recv(), lines 49 and 61: _is_connected after the retry has
\* ended with result r, c being its value before (the retry is outside the
\* try of lines 44 and 56, and nothing is assigned after it)
FlagAfterRetry(c, r) == c

FlagAfterCloseFailure_cleared(c) == FALSE

\* disconnect(), lines 36-37: _is_connected when the close has raised, c being
\* its value before (line 37 is not reached)
FlagAfterCloseFailure(c) == c

FlagAfterClose_stays == TRUE

\* disconnect(), line 37: _is_connected after the close
FlagAfterClose == FALSE

RetryRaises_wrapped(r) == "ConnectionError"

\* send() and recv(), lines 49 and 61: what the call raises when the retry raised r
RetryRaises(r) == r

SocketAfterConnect_kept(old, new) == IF old = None THEN new ELSE old

\* connect(), line 26: the socket stored when the transport has opened `new`
SocketAfterConnect(old, new) == new

\* What the transport has last shown of the connection: "never" connected,
\* "up" (the last connect attempt succeeded and no write or read has failed
\* since), "refused" (the last connect attempt failed), "failed" (a write
\* or read raised a transport error since the last successful connect) or
\* "closed" (a close has completed since).
LinkAfter(cur, c, r) ==
    CASE c = "connect" -> IF r = "ok" THEN "up" ELSE "refused"
      [] c = "close" -> IF r = "ok" THEN "closed" ELSE cur
      [] OTHER -> IF r = "WebSocketException" THEN "failed" ELSE cur

SleepDelay_backoff(d, l) == d * Len(l)

\* The delay of one iteration of _reconnect, line 68, l being the log of the
\* call so far
SleepDelay(d, l) == d

RetrySocket_stale(w, l) == l[1].sock

\* The socket the retried write/read is issued on, lines 49 and 61: w is
\* self.websocket read again after _reconnect(), l the log of the call so far
RetrySocket(w, l) == w

RetryMessage_blank(m) == NoValue

\* The payload of the retried write, line 49
RetryMessage(m) == m

\* connect() from its first line, l being the log of the call so far.
\* Used where connect() is the whole call.
ConnectFrom(t, l) ==
    IF ConnectReturnsEarly(is_connected)
    THEN Finish(t, "none", NoValue, l)
    ELSE Await(t, "L26", l, Event("connect", None, NoValue, 0), "connect")

\* disconnect() from its first line, where disconnect() is the whole call.
DisconnectFrom(t, l) ==
    IF DisconnectReturnsEarly(is_connected, websocket)
    THEN Finish(t, "none", NoValue, l)
    ELSE Await(t, "L36", l, Event("close", websocket, NoValue, 0), "close")

\* The retry of send()/recv() after _reconnect() has returned (lines 49, 61),
\* w being self.websocket then.
Retry(t, w, l) ==
    IF op[t] = "send"
    THEN Await(t, "L49", l,
               Event("send", RetrySocket(w, l), RetryMessage(message[t]), 0), "send")
    ELSE Await(t, "L61", l, Event("recv", RetrySocket(w, l), NoValue, 0), "recv")

\* _reconnect() from its loop test (line 65) up to the next await, c and w
\* being _is_connected and websocket at that point.
ReconnectLoop(t, c, w, l) ==
    IF c
    THEN Retry(t, w, l)
    ELSE IF DisconnectReturnsEarly(c, w)
         THEN Await(t, "L68", l,
                    Event("sleep", None, NoValue, SleepDelay(reconnect_delay, l)), "sleep")
         ELSE Await(t, "L36", l, Event("close", w, NoValue, 0), "close")

Refused(l) ==
    Cardinality({i \in 1..Len(l) : l[i].call = "connect" /\ l[i].res = "WebSocketException"})

\* No other task is inside a call or a scope.
Alone(t) == \A u \in Tasks \ {t} : pc[u] = "idle" /\ scope[u] = "none"

\* The calls the users of the client may still start.
Budget == IF mode = "sequential" THEN MaxCalls ELSE MaxConcurrentCalls

\* The connects the server may still refuse inside one reconnect loop.
RefusalBudget == IF mode = "sequential" THEN MaxFail ELSE MaxConcurrentFail

\* connect() or disconnect() of the Connection, as the whole call of task t.
Invoke(t, o) == IF o = "connect" THEN ConnectFrom(t, <<>>) ELSE DisconnectFrom(t, <<>>)

\* A user of the client calls its method c.
Begin(t, c, txt, m) ==
    /\ pc[t] = "idle"
    /\ scope[t] \in {"none", "body"}
    /\ Runs(t)
    /\ mode = "sequential" => Alone(t)
    /\ api_calls < Budget
    /\ api_calls' = api_calls + 1
    /\ method' = [method EXCEPT ![t] = c]
    /\ op' = [op EXCEPT ![t] = Delegated(c)]
    /\ text' = [text EXCEPT ![t] = txt]
    /\ message' = [message EXCEPT ![t] = m]

connect(t) ==
    /\ Begin(t, "connect", NoValue, NoValue)
    /\ Invoke(t, Delegated("connect"))
    /\ UNCHANGED <<link, conn_vars, transport_vars, user_vars>>

disconnect(t) ==
    /\ Begin(t, "disconnect", NoValue, NoValue)
    /\ Invoke(t, Delegated("disconnect"))
    /\ UNCHANGED <<link, conn_vars, transport_vars, user_vars>>

send_message(t) ==
    \E m \in Msgs :
        /\ Begin(t, "send_message", m, Serialize_message(m))
        /\ IF NotConnected(is_connected, websocket)
           THEN Finish(t, "ConnectionError", NoValue, <<>>)
           ELSE Await(t, "L45", <<>>,
                      Event("send", websocket, Serialize_message(m), 0), "send")
        /\ UNCHANGED <<link, conn_vars, transport_vars, user_vars>>

receive_message(t) ==
    /\ Begin(t, "receive_message", NoValue, NoValue)
    /\ IF NotConnected(is_connected, websocket)
       THEN Finish(t, "ConnectionError", NoValue, <<>>)
       ELSE Await(t, "L57", <<>>, Event("recv", websocket, NoValue, 0), "recv")
    /\ UNCHANGED <<link, conn_vars, transport_vars, user_vars>>

\* websockets.connect(uri) completes (line 26).
connect_done(t) ==
    /\ pc[t] = "L26"
    /\ Runs(t)
    /\ \E r \in Outcomes :
        /\ link' = LinkAfter(link, "connect", r)
        /\ LET l == Completed(log[t], r, NoValue) IN
           CASE r = "ok" ->
                   LET s == sock_count + 1 IN
                   /\ sock_count' = s
                   /\ websocket' = SocketAfterConnect(websocket, s)
                   /\ is_connected' = FlagAfterConnect
                   /\ IF op[t] = "connect"
                      THEN Finish(t, "none", NoValue, l)
                      ELSE ReconnectLoop(t, FlagAfterConnect,
                                         SocketAfterConnect(websocket, s), l)
             [] r # "ok" /\ op[t] # "connect" /\ Swallowed(ConnectRaises(r)) ->
                   \* inside _reconnect: line 70 catches it, the loop goes on
                   /\ UNCHANGED <<websocket, is_connected, sock_count>>
                   /\ Refused(log[t]) < RefusalBudget
                   /\ ReconnectLoop(t, is_connected, websocket, l)
             [] OTHER ->
                   /\ UNCHANGED <<websocket, is_connected, sock_count>>
                   /\ Finish(t, ConnectRaises(r), NoValue, l)
    /\ UNCHANGED <<reconnect_delay, closed, api_calls, method, op, text, message, user_vars>>

\* websocket.close() completes (line 36).
close_done(t) ==
    /\ pc[t] = "L36"
    /\ Runs(t)
    /\ \E r \in Outcomes :
        /\ link' = LinkAfter(link, "close", r)
        /\ LET l == Completed(log[t], r, NoValue) IN
           IF r = "ok"
           THEN /\ closed' = closed \cup {Last(log[t]).sock}
                /\ is_connected' = FlagAfterClose
                /\ IF op[t] = "disconnect"
                   THEN Finish(t, "none", NoValue, l)
                   ELSE Await(t, "L68", l,
                              Event("sleep", None, NoValue, SleepDelay(reconnect_delay, l)),
                              "sleep")
           ELSE /\ UNCHANGED closed
                /\ is_connected' = FlagAfterCloseFailure(is_connected)
                /\ Finish(t, r, NoValue, l)
    /\ UNCHANGED <<websocket, reconnect_delay, sock_count, api_calls, method, op, text, message,
                   user_vars>>

\* asyncio.sleep(reconnect_delay) completes (line 68); connect() follows (line 69).
sleep_done(t) ==
    /\ pc[t] = "L68"
    /\ Runs(t)
    /\ LET l == Completed(log[t], "ok", NoValue) IN
        IF ConnectReturnsEarly(is_connected)
        THEN ReconnectLoop(t, is_connected, websocket, l)
        ELSE Await(t, "L26", l, Event("connect", None, NoValue, 0), "connect")
    /\ UNCHANGED <<link, conn_vars, transport_vars, api_calls, method, op, text, message, user_vars>>

\* The first websocket.send(message) completes (line 45).
send_done(t) ==
    /\ pc[t] = "L45"
    /\ Runs(t)
    /\ \E r \in Outcomes :
        /\ link' = LinkAfter(link, "send", r)
        /\ LET l == Completed(log[t], r, NoValue) IN
           CASE r = "ok" ->
                   /\ UNCHANGED is_connected
                   /\ Finish(t, "none", NoValue, l)
             [] r = "WebSocketException" ->
                   /\ is_connected' = FlagAfterFailure
                   /\ ReconnectLoop(t, FlagAfterFailure, websocket, l)
             [] OTHER ->
                   /\ UNCHANGED is_connected
                   /\ Finish(t, r, NoValue, l)
    /\ UNCHANGED <<websocket, reconnect_delay, transport_vars, api_calls, method, op, text,
                   message, user_vars>>

\* The retried websocket.send(message) completes (line 49).
send_retry_done(t) ==
    /\ pc[t] = "L49"
    /\ Runs(t)
    /\ \E r \in Outcomes :
        /\ link' = LinkAfter(link, "send", r)
        /\ is_connected' = FlagAfterRetry(is_connected, r)
        /\ Finish(t, IF r = "ok" THEN "none" ELSE RetryRaises(r), NoValue,
                  Completed(log[t], r, NoValue))
    /\ UNCHANGED <<websocket, reconnect_delay, transport_vars, api_calls, method, op, text, message, user_vars>>

\* The first websocket.recv() completes (line 57).
recv_done(t) ==
    /\ pc[t] = "L57"
    /\ Runs(t)
    /\ \E r \in Outcomes :
        /\ link' = LinkAfter(link, "recv", r)
        /\ CASE r = "ok" ->
                   \E w \in Msgs :
                       /\ UNCHANGED is_connected
                       /\ Finish(t, "none", Process_message(w), Completed(log[t], r, w))
             [] r = "WebSocketException" ->
                   /\ is_connected' = FlagAfterFailure
                   /\ ReconnectLoop(t, FlagAfterFailure, websocket, Completed(log[t], r, NoValue))
             [] OTHER ->
                   /\ UNCHANGED is_connected
                   /\ Finish(t, r, NoValue, Completed(log[t], r, NoValue))
    /\ UNCHANGED <<websocket, reconnect_delay, transport_vars, api_calls, method, op, text,
                   message, user_vars>>

\* The retried websocket.recv() completes (line 61).
recv_retry_done(t) ==
    /\ pc[t] = "L61"
    /\ Runs(t)
    /\ \E r \in Outcomes :
        /\ link' = LinkAfter(link, "recv", r)
        /\ is_connected' = FlagAfterRetry(is_connected, r)
        /\ IF r = "ok"
           THEN \E w \in Msgs :
                   Finish(t, "none", Process_message(w), Completed(log[t], r, w))
           ELSE Finish(t, RetryRaises(r), NoValue, Completed(log[t], r, NoValue))
    /\ UNCHANGED <<websocket, reconnect_delay, transport_vars, api_calls, method, op, text, message, user_vars>>

\* ----------------------------------------------- the caller and the scope
Reset(t) ==
    /\ pc' = [pc EXCEPT ![t] = "idle"]
    /\ method' = [method EXCEPT ![t] = "none"]
    /\ op' = [op EXCEPT ![t] = "none"]
    /\ text' = [text EXCEPT ![t] = NoValue]
    /\ message' = [message EXCEPT ![t] = NoValue]
    /\ log' = [log EXCEPT ![t] = <<>>]
    /\ exc' = [exc EXCEPT ![t] = "none"]
    /\ ret' = [ret EXCEPT ![t] = NoValue]

\* The caller has the result of its call and goes on.
Return(t) ==
    /\ pc[t] = "done"
    /\ scope[t] = "none" \/ (scope[t] = "body" /\ exc[t] = "none")
    /\ Reset(t)
    /\ UNCHANGED <<link, conn_vars, transport_vars, call_count, api_calls, scope_vars, mode>>

\* `async with client:` awaits __aenter__, which awaits connect() (client.py line 59).
aenter(t) ==
    /\ pc[t] = "idle"
    /\ scope[t] = "none"
    /\ Runs(t)
    /\ mode = "sequential" => Alone(t)
    /\ api_calls < Budget
    /\ api_calls' = api_calls + 1
    /\ scope' = [scope EXCEPT ![t] = "enter"]
    /\ scope_log' = [scope_log EXCEPT ![t] = <<"connect">>]
    /\ method' = [method EXCEPT ![t] = "__aenter__"]
    /\ op' = [op EXCEPT ![t] = Delegated("__aenter__")]
    /\ Invoke(t, Delegated("__aenter__"))
    /\ UNCHANGED <<link, conn_vars, transport_vars, text, message, pending, mode>>

BodyRuns_always(e) == TRUE

\* `async with client:` runs its body, and later __aexit__, only when
\* __aenter__ has returned (client.py lines 58-60): e is what __aenter__ raised.
BodyRuns(e) == e = "none"

\* __aenter__ has returned the client: the body of the scope starts.
body_entered(t) ==
    /\ pc[t] = "done"
    /\ scope[t] = "enter"
    /\ BodyRuns(exc[t])
    /\ scope' = [scope EXCEPT ![t] = "body"]
    /\ scope_log' = [scope_log EXCEPT ![t] = Append(@, "body")]
    /\ Reset(t)
    /\ UNCHANGED <<link, conn_vars, transport_vars, call_count, api_calls, pending, mode>>

\* The scope is left with e raised in its body ("none": the body completed):
\* __aexit__ awaits disconnect() (client.py line 63).
Aexit(t, e) ==
    /\ scope' = [scope EXCEPT ![t] = "exit"]
    /\ pending' = [pending EXCEPT ![t] = e]
    /\ scope_log' = [scope_log EXCEPT ![t] = Append(@, "disconnect")]
    /\ method' = [method EXCEPT ![t] = "__aexit__"]
    /\ op' = [op EXCEPT ![t] = Delegated("__aexit__")]
    /\ text' = [text EXCEPT ![t] = NoValue]
    /\ message' = [message EXCEPT ![t] = NoValue]
    /\ Invoke(t, Delegated("__aexit__"))
    /\ UNCHANGED <<link, conn_vars, transport_vars, api_calls, mode>>

body_end(t) ==
    /\ pc[t] = "idle"
    /\ scope[t] = "body"
    /\ Runs(t)
    /\ Aexit(t, "none")

\* The body raises an error of its own.
body_raise(t) ==
    /\ pc[t] = "idle"
    /\ scope[t] = "body"
    /\ Runs(t)
    /\ Aexit(t, "BodyError")

\* A call made in the body raises, and the body does not catch it.
call_raised(t) ==
    /\ pc[t] = "done"
    /\ scope[t] = "body"
    /\ exc[t] # "none"
    /\ Aexit(t, exc[t])

AexitSuppresses_true == TRUE

\* __aexit__ returns None (client.py lines 62-63): whether it suppresses the
\* exception of the body.
AexitSuppresses == FALSE

\* The scope is over for its caller: __aenter__ raised, or __aexit__ is done.
ScopeOver(t) ==
    /\ pc[t] = "done"
    /\ \/ scope[t] = "enter" /\ ~BodyRuns(exc[t])
       \/ scope[t] = "exit"

\* The exception that leaves the `async with` statement ("none": none does).
Propagated(t) ==
    IF scope[t] = "enter" \/ exc[t] # "none" THEN exc[t]
    ELSE IF AexitSuppresses THEN "none" ELSE pending[t]

scope_left(t) ==
    /\ ScopeOver(t)
    /\ Reset(t)
    /\ scope' = [scope EXCEPT ![t] = "none"]
    /\ pending' = [pending EXCEPT ![t] = "none"]
    /\ scope_log' = [scope_log EXCEPT ![t] = <<>>]
    /\ UNCHANGED <<link, conn_vars, transport_vars, call_count, api_calls, mode>>

\* ------------------------------------------------------- specifications
TransportCalls == {"connect", "close", "send", "recv", "sleep"}

\* Connection.__init__ (lines 14-18): no socket, not connected.
InitConnection ==
    /\ websocket = None
    /\ is_connected = FALSE
    /\ reconnect_delay \in Delays

InitTransport ==
    /\ sock_count = 0
    /\ closed = {}
    /\ call_count = [c \in TransportCalls |-> 0]
    /\ link = "never"

InitTasks ==
    /\ api_calls = 0
    /\ pc = [t \in Tasks |-> "idle"]
    /\ method = [t \in Tasks |-> "none"]
    /\ op = [t \in Tasks |-> "none"]
    /\ text = [t \in Tasks |-> NoValue]
    /\ message = [t \in Tasks |-> NoValue]
    /\ log = [t \in Tasks |-> <<>>]
    /\ exc = [t \in Tasks |-> "none"]
    /\ ret = [t \in Tasks |-> NoValue]
    /\ scope = [t \in Tasks |-> "none"]
    /\ pending = [t \in Tasks |-> "none"]
    /\ scope_log = [t \in Tasks |-> <<>>]

Init == InitConnection /\ InitTransport /\ InitTasks /\ mode = "sequential"

Next ==
    \E t \in Tasks :
        \/ connect(t)
        \/ disconnect(t)
        \/ send_message(t)
        \/ receive_message(t)
        \/ connect_done(t)
        \/ close_done(t)
        \/ sleep_done(t)
        \/ send_done(t)
        \/ send_retry_done(t)
        \/ recv_done(t)
        \/ recv_retry_done(t)
        \/ Return(t)
        \/ aenter(t)
        \/ body_entered(t)
        \/ body_end(t)
        \/ body_raise(t)
        \/ call_raised(t)
        \/ scope_left(t)

\* One sequential user of the Connection (the use the design assumes).
Spec == Init /\ [][Next]_vars

\* The Connection after a first connect() that succeeded.
InitConnected ==
    /\ websocket = 1
    /\ is_connected = TRUE
    /\ reconnect_delay \in Delays
    /\ sock_count = 1
    /\ closed = {}
    /\ call_count = [c \in TransportCalls |-> IF c = "connect" THEN 1 ELSE 0]
    /\ link = "up"

\* The delay of a Connection constructed without one.
DefaultDelay == 5

\* Several tasks share a Connection of the default delay and interleave at
\* every await; they find it as constructed, or connected by a first connect().
InitConcurrent ==
    /\ (InitConnection /\ InitTransport) \/ InitConnected
    /\ reconnect_delay = DefaultDelay
    /\ InitTasks
    /\ mode = "concurrent"

SpecConcurrent == InitConcurrent /\ [][Next]_vars

\* ------------------------------------------------------- reading the log
\* The call of task t is the Connection method o and is over.
Done(t, o) == pc[t] = "done" /\ op[t] = o

\* The first transport operation of the call was c and failed with a transport error.
FirstFailed(l, c) ==
    /\ l # <<>>
    /\ l[1].call = c
    /\ l[1].res = "WebSocketException"

\* The call retried c, and the retry ended with result r.
Retried(l, c) == Len(l) > 1 /\ Last(l).call = c /\ Last(l).res # "pending"

\* r is one whole run of the reconnect loop: iterations of a delay followed by
\* a connect attempt, every attempt refused but the last, which succeeds.
ReconnectRun(r) ==
    /\ Len(r) >= 2
    /\ Len(r) % 2 = 0
    /\ \A i \in 1..Len(r) :
        /\ i % 2 = 1 => r[i].call = "sleep" /\ r[i].res = "ok"
        /\ i % 2 = 0 => r[i].call = "connect"
        /\ (i % 2 = 0 /\ i < Len(r)) => r[i].res = "WebSocketException"
    /\ Last(r).res = "ok"

\* What lies between the first operation of a call and its retry.
Between(l) == SubSeq(l, 2, Len(l) - 1)

\* Task t starts the Connection method o in this step.
Starts(t, o) == pc[t] \in {"idle", "done"} /\ pc'[t] # "idle" /\ op'[t] = o

\* Nothing of the Connection or of the transport changes in this step.
Untouched == UNCHANGED <<conn_vars, transport_vars, call_count>>

\* ------------------------------------------------------------------ C1
\* C1: on a connected Connection, when the first write of send(payload) fails
\* with a transport error and the retry succeeds, the connected flag is false
\* while the call reconnects, exactly one run of the reconnect loop lies between
\* the two writes (ending with the connect that succeeds), the second write
\* carries the same payload, no third write is made (2 writes in the call), and
\* send() returns without raising, leaving the Connection connected.
C1_SendReconnectsAndRetriesOnce ==
    \A t \in Tasks :
        /\ (op[t] = "send" /\ pc[t] \in {"L68", "L26"}) => ~is_connected
        /\ (Done(t, "send") /\ FirstFailed(log[t], "send") /\ Retried(log[t], "send")
                /\ Last(log[t]).res = "ok")
           => /\ exc[t] = "none"
              /\ Count(log[t], "send") = 2
              /\ Last(log[t]).arg = log[t][1].arg
              /\ log[t][1].arg = message[t]
              /\ ReconnectRun(Between(log[t]))
              /\ is_connected

C1_Witness ==
    \E t \in Tasks :
        /\ Done(t, "send") /\ FirstFailed(log[t], "send") /\ Retried(log[t], "send")
        /\ Last(log[t]).res = "ok"
        /\ message[t] = "World"
        /\ Refused(log[t]) = 1

\* ------------------------------------------------------------------ C2
\* C2: when the retry of send()/recv() fails too, the call raises the error of
\* the transport as it is (never ConnectionError), nothing follows the retry,
\* and no call ever makes more than 2 writes/reads.
C2_RetryFailureUnwrapped ==
    \A t \in Tasks :
        /\ Count(log[t], "send") + Count(log[t], "recv") <= 2
        /\ \A c \in {"send", "recv"} :
            (Done(t, c) /\ Retried(log[t], c) /\ Last(log[t]).res # "ok")
            => /\ exc[t] = Last(log[t]).res
               /\ exc[t] \in {"WebSocketException", "OtherError"}
               /\ Count(log[t], c) = 2
               /\ ReconnectRun(Between(log[t]))

C2_Witness ==
    \E t \in Tasks :
        /\ Done(t, "recv") /\ Retried(log[t], "recv")
        /\ Last(log[t]).res = "WebSocketException"
        /\ exc[t] = "WebSocketException"

\* ------------------------------------------------------------------ C3
\* C3: send() and recv() started while the connected flag is false raise
\* ConnectionError at once, start no transport operation (no write, read,
\* connect, close or delay) and change nothing of the Connection.
C3_NotConnectedRejected ==
    [][\A t \in Tasks :
        ((Starts(t, "send") \/ Starts(t, "recv")) /\ ~is_connected)
        => /\ pc'[t] = "done"
           /\ exc'[t] = "ConnectionError"
           /\ log'[t] = <<>>
           /\ Untouched]_vars

\* send() rejected after a disconnect(): the socket handle is still stored.
C3_Witness ==
    \E t \in Tasks :
        /\ Done(t, "send") /\ exc[t] = "ConnectionError" /\ log[t] = <<>>
        /\ websocket # None /\ websocket \in closed /\ ~is_connected

\* ------------------------------------------------------------------ C4
C4_SecondConnect ==
    \A t \in Tasks :
        (Starts(t, "connect") /\ is_connected)
        => /\ pc'[t] = "done"
           /\ exc'[t] = "none"
           /\ log'[t] = <<>>
           /\ Untouched

C4_ConnectOnce ==
    \A t \in Tasks :
        /\ Done(t, "connect") => Count(log[t], "connect") <= 1
        /\ (Done(t, "connect") /\ api_calls = 2 /\ is_connected /\ log[t] = <<>>)
           => call_count["connect"] = 1

\* C4: connect() started while the connected flag is true returns at once
\* without a transport connect and without touching the socket; a connect()
\* that does reach the transport reaches it once, so two connect() in a row
\* from construction (the first succeeding) make one transport connect.
C4_ConnectIdempotent == [][C4_SecondConnect]_vars /\ []C4_ConnectOnce

C4_Witness ==
    \E t \in Tasks :
        /\ Done(t, "connect") /\ api_calls = 2 /\ is_connected /\ log[t] = <<>>
        /\ call_count["connect"] = 1 /\ sock_count = 1 /\ websocket = 1

C6_ScopeDisconnectsOnce ==
    \A t \in Tasks :
        /\ scope[t] = "enter" => scope_log[t] = <<"connect">> /\ op[t] = "connect"
        /\ scope[t] = "body" => scope_log[t] = <<"connect", "body">>
        /\ scope[t] = "exit" =>
            /\ scope_log[t] = <<"connect", "body", "disconnect">>
            /\ op[t] = "disconnect"
        /\ (ScopeOver(t) /\ scope[t] = "exit") =>
            /\ exc[t] = "none" => (Propagated(t) = pending[t] /\ ~is_connected)
            /\ pending[t] # "none" => Propagated(t) # "none"

C6_Witness ==
    \E t \in Tasks :
        /\ ScopeOver(t) /\ scope[t] = "exit"
        /\ pending[t] = "BodyError"
        /\ exc[t] = "none"
        /\ log[t] # <<>> /\ Last(log[t]).call = "close"

\* ------------------------------------------------------------------ C7
\* C7: on a connected Connection, when the first read of recv() fails with a
\* transport error, the connected flag is false while the call reconnects; if
\* the call then returns, exactly one run of the reconnect loop lies between
\* the first read and its one retry (2 reads in the call), and the value
\* returned is the value the retried read returned.
C7_RecvReconnectsAndRetriesOnce ==
    \A t \in Tasks :
        /\ (op[t] = "recv" /\ pc[t] \in {"L68", "L26"}) => ~is_connected
        /\ (op[t] = "recv" /\ FirstFailed(log[t], "recv") /\ pc[t] \in {"L61", "done"}
                /\ Len(log[t]) > 1 /\ Last(log[t]).call = "recv")
           => /\ Count(log[t], "recv") = 2
              /\ ReconnectRun(Between(log[t]))
        /\ (Done(t, "recv") /\ FirstFailed(log[t], "recv") /\ exc[t] = "none")
           => /\ Retried(log[t], "recv")
              /\ Last(log[t]).res = "ok"
              /\ ret[t] = Last(log[t]).val
              /\ ret[t] \in Msgs
              /\ is_connected

C7_Witness ==
    \E t \in Tasks :
        /\ Done(t, "recv") /\ FirstFailed(log[t], "recv") /\ exc[t] = "none"
        /\ ret[t] = "World"
        /\ Count(log[t], "recv") = 2

\* ------------------------------------------------------------------ C8
\* C8: disconnect() started while the connected flag is false returns at once,
\* starts no transport operation and changes nothing of the Connection.
C8_DisconnectWhenDisconnected ==
    [][\A t \in Tasks :
        (Starts(t, "disconnect") /\ ~is_connected)
        => /\ pc'[t] = "done"
           /\ exc'[t] = "none"
           /\ log'[t] = <<>>
           /\ Untouched]_vars

\* A second disconnect() after one that closed the socket.
C8_Witness ==
    \E t \in Tasks :
        /\ Done(t, "disconnect") /\ log[t] = <<>> /\ exc[t] = "none"
        /\ websocket # None /\ closed = {websocket} /\ call_count["close"] = 1
        /\ ~is_connected

\* ------------------------------------------------------------------ C9
\* C9: when a connect() that reached the transport returns, is_connected is
\* true and the socket stored is the one just opened; when a disconnect() that
\* reached the transport returns, it has closed that socket, once, and
\* is_connected is false.
C9_ConnectThenDisconnect ==
    \A t \in Tasks :
        /\ (Done(t, "connect") /\ exc[t] = "none" /\ log[t] # <<>>)
           => /\ is_connected
              /\ websocket = sock_count
              /\ websocket \notin closed
        /\ (Done(t, "disconnect") /\ exc[t] = "none" /\ log[t] # <<>>)
           => /\ Len(log[t]) = 1
              /\ log[t][1].call = "close"
              /\ log[t][1].sock = websocket
              /\ websocket \in closed
              /\ log[t][1].res = "ok"
              /\ ~is_connected

C9_Witness ==
    \E t \in Tasks :
        /\ Done(t, "disconnect") /\ exc[t] = "none" /\ Len(log[t]) = 1
        /\ api_calls = 2 /\ call_count["connect"] = 1 /\ closed = {1}
        /\ ~is_connected

\* ----------------------------------------------------------------- C10
\* The position of the connect that succeeded in the log of a call (0: none did).
ConnectedAt(l) ==
    IF \E i \in 1..Len(l) : l[i].call = "connect" /\ l[i].res = "ok"
    THEN CHOOSE i \in 1..Len(l) : l[i].call = "connect" /\ l[i].res = "ok"
    ELSE 0

\* C10: in a send()/recv() that reconnects, when k connect attempts are
\* refused and attempt k+1 succeeds, the loop has made exactly k+1 transport
\* connects (each after a delay), it ends there with the connected flag true,
\* and none of the k refusals reaches the caller: the call never raises
\* ConnectionError once it has started.  With k = 0 and a retried send that
\* succeeds, as the second call after a connect(), the transport has seen
\* 2 connects and 2 sends since construction.
C10_ReconnectUntilSuccess ==
    \A t \in Tasks :
        op[t] \in {"send", "recv"} =>
            /\ (pc[t] = "done" /\ log[t] # <<>>) => exc[t] # "ConnectionError"
            /\ ConnectedAt(log[t]) # 0 =>
                /\ Count(log[t], "connect") = Refused(log[t]) + 1
                /\ ConnectedAt(log[t]) = 2 * (Refused(log[t]) + 1) + 1
                /\ ReconnectRun(SubSeq(log[t], 2, ConnectedAt(log[t])))
                /\ Len(log[t]) = ConnectedAt(log[t]) + 1
            /\ pc[t] \in {"L49", "L61"} => (is_connected /\ websocket = sock_count)
            /\ (Done(t, "send") /\ api_calls = 2 /\ exc[t] = "none"
                    /\ ConnectedAt(log[t]) # 0 /\ Refused(log[t]) = 0)
               => (call_count["connect"] = 2 /\ call_count["send"] = 2)

C10_Witness ==
    \E t \in Tasks :
        /\ Done(t, "send") /\ exc[t] = "none"
        /\ Refused(log[t]) = 2
        /\ Count(log[t], "connect") = 3
        /\ is_connected

\* ----------------------------------------------------------------- C11
\* C11: whenever the connected flag is true, a socket is stored, and it is the
\* socket the most recent successful transport connect has returned.
C11_ConnectedHasLatestSocket ==
    is_connected => (websocket # None /\ websocket = sock_count)

\* Connected again, on a second socket, after a reconnect.
C11_Witness ==
    /\ is_connected
    /\ websocket = 2
    /\ \E t \in Tasks : op[t] = "send" /\ pc[t] = "L49"

\* ----------------------------------------------------------------- C12
\* No call is running: every task is between two operations.
BetweenOperations == \A t \in Tasks : pc[t] \in {"idle", "done"}

\* C12: between operations, the connected flag is true if and only if the
\* last connect attempt succeeded and no write or read has failed with a
\* transport error since (and the connection has not been closed since).
C12_FlagTracksTransport ==
    BetweenOperations => (is_connected <=> link = "up")

\* ----------------------------------------------------------------- C13
\* C13: whenever the connected flag is false, no socket handle is stored.
C13_DisconnectedHasNoSocket == ~is_connected => websocket = None

\* ----------------------------------------------------------------- C14
\* C14: a connect() whose transport connect fails, whatever the failure is,
\* raises ConnectionError.
C14_ConnectFailureIsConnectionError ==
    \A t \in Tasks :
        (Done(t, "connect") /\ log[t] # <<>> /\ Last(log[t]).res # "ok")
        => exc[t] = "ConnectionError"

\* ----------------------------------------------------------------- C15
\* C15: a send()/recv() that has entered the reconnect loop raises nothing but
\* the error of its own retried write/read: no failure met inside the loop
\* reaches the caller.
C15_LoopFailuresSwallowed ==
    \A t \in Tasks :
        (pc[t] = "done" /\ op[t] \in {"send", "recv"} /\ Len(log[t]) > 1
                /\ exc[t] # "none")
        => /\ Retried(log[t], op[t])
           /\ exc[t] = Last(log[t]).res

\* ----------------------------------------------------------------- C16
\* C16: every write the transport receives during send_message(m), the first
\* one and the retry after a reconnect alike, carries exactly the text m.
C16_SendMessageUnchanged ==
    \A t \in Tasks :
        \A i \in 1..Len(log[t]) :
            log[t][i].call = "send" => log[t][i].arg = text[t]

C16_Witness ==
    \E t \in Tasks :
        /\ op[t] = "send" /\ text[t] = "World"
        /\ Count(log[t], "send") = 2
        /\ log[t][1].arg = "World" /\ Last(log[t]).arg = "World"

\* ----------------------------------------------------------------- C17
\* C17: when receive_message() returns, it returns exactly the text the
\* transport read returned, whether that was the first read or the retry.
C17_ReceiveMessageUnchanged ==
    \A t \in Tasks :
        (Done(t, "recv") /\ exc[t] = "none")
        => /\ Last(log[t]).call = "recv"
           /\ Last(log[t]).res = "ok"
           /\ ret[t] = Last(log[t]).val

C17_Witness ==
    \E t \in Tasks :
        /\ Done(t, "recv") /\ exc[t] = "none"
        /\ Len(log[t]) = 1
        /\ log[t][1].val = "World" /\ ret[t] = "World"

\* ----------------------------------------------------------------- C18
\* C18: a send()/recv() that has entered the reconnect loop is over (it has
\* returned or raised) only after a transport connect of its loop succeeded.
C18_LoopEndsOnlyByConnect ==
    \A t \in Tasks :
        (pc[t] = "done" /\ op[t] \in {"send", "recv"} /\ Len(log[t]) > 1)
        => ConnectedAt(log[t]) # 0

\* ----------------------------------------------------------------- C19
\* The transport operations of the call of task t that are outstanding.
Outstanding(t) == {i \in 1..Len(log[t]) : log[t][i].res = "pending"}

\* The transport operation a call suspended at line p is awaiting.
AwaitedAt(p) ==
    CASE p = "L26" -> "connect"
      [] p = "L36" -> "close"
      [] p \in {"L45", "L49"} -> "send"
      [] p \in {"L57", "L61"} -> "recv"
      [] p = "L68" -> "sleep"
      [] OTHER -> "none"

\* Task t is inside the reconnect loop of its send()/recv().
InLoop(t) == op[t] \in {"send", "recv"} /\ pc[t] \in {"L68", "L36", "L26"}

DisconnectInLoop(t, u) == t # u /\ InLoop(u) /\ Starts(t, "disconnect")

\* The disconnect() task t starts in this step returns at once and does nothing.
NoOp(t) ==
    /\ pc'[t] = "done"
    /\ exc'[t] = "none"
    /\ log'[t] = <<>>
    /\ Untouched

DisconnectStep(t) ==
    \/ Starts(t, "disconnect")
    \/ op[t] = "disconnect" /\ pc[t] = "L36" /\ pc'[t] # pc[t]

OnlyCalls(l, c) == \A i \in 1..Len(l) : l[i].call = c

\* C21: a call of connect() of the Client runs connect() of the Connection,
\* once, and nothing else of it: the transport sees at most the one connect
\* of that call, and no close, write, read or delay.  A call of disconnect()
\* of the Client runs disconnect() of the Connection, once, and nothing
\* else: the transport sees at most the one close of that call.
C21_ClientDelegates ==
    \A t \in Tasks :
        /\ method[t] \in {"connect", "__aenter__"} =>
            /\ op[t] = "connect"
            /\ OnlyCalls(log[t], "connect")
            /\ Len(log[t]) <= 1
            /\ pc[t] \in {"L26", "done"}
        /\ method[t] \in {"disconnect", "__aexit__"} =>
            /\ op[t] = "disconnect"
            /\ OnlyCalls(log[t], "close")
            /\ Len(log[t]) <= 1
            /\ pc[t] \in {"L36", "done"}
        /\ method[t] = "none" <=> op[t] = "none"

\* connect() of the Client, then disconnect() of the Client, each with its
\* one transport operation.
C21_Witness ==
    \E t \in Tasks :
        /\ method[t] = "disconnect" /\ Done(t, "disconnect")
        /\ Len(log[t]) = 1 /\ log[t][1].call = "close" /\ log[t][1].res = "ok"
        /\ api_calls = 2
        /\ call_count["connect"] = 1 /\ call_count["close"] = 1

\* ----------------------------------------------------------------- C22
\* C22: in a send()/recv() that reconnects, every iteration of the loop is
\* a delay followed by a connect attempt: a delay of reconnect_delay, the
\* same in every iteration, comes right before every connect attempt, the
\* first included; the disconnect() that opens the iteration finds the flag
\* false and closes nothing.  The loop test decides after each iteration:
\* after a refused connect the next delay follows, after a successful one
\* the retry, and the loop runs only while the flag is false.
C22_LoopIterationOrder ==
    \A t \in Tasks :
        op[t] \in {"send", "recv"} =>
            /\ \A i \in 2..Len(log[t]) :
                LET e == log[t][i]
                    b == log[t][i - 1]
                IN  /\ e.call \in {"sleep", "connect", op[t]}
                    /\ e.call = "sleep" =>
                        /\ e.delay = reconnect_delay
                        /\ b.res = "WebSocketException"
                        /\ b.call = IF i = 2 THEN op[t] ELSE "connect"
                    /\ e.call = "connect" =>
                        /\ b.call = "sleep" /\ b.res = "ok"
                        /\ b.delay = reconnect_delay
                    /\ e.call = op[t] =>
                        /\ b.call = "connect" /\ b.res = "ok"
                        /\ i = Len(log[t])
                    /\ (b.call = "connect" /\ b.res = "WebSocketException") =>
                        e.call = "sleep"
                    /\ (b.call = "connect" /\ b.res = "ok") => e.call = op[t]
            /\ pc[t] \in {"L68", "L26"} => ~is_connected
            /\ pc[t] \in {"L49", "L61"} => is_connected

\* The second iteration of a loop: two delays of reconnect_delay, one
\* refused connect, the second connect awaited.
C22_Witness ==
    \E t \in Tasks :
        /\ op[t] = "recv" /\ pc[t] = "L26"
        /\ Count(log[t], "sleep") = 2
        /\ Refused(log[t]) = 1
        /\ reconnect_delay = 5
        /\ log[t][2].delay = 5 /\ log[t][4].delay = 5

\* ----------------------------------------------------------------- C23
\* The close of socket w has been started (and may have completed).
CloseStarted(w) ==
    \/ w \in closed
    \/ \E t \in Tasks : pc[t] = "L36" /\ Last(log[t]).sock = w

\* C23: while an operation is suspended at an await of the transport, the
\* connected flag is never true for a stored socket whose close has been
\* started or whose write/read has been seen to fail, and never false for a
\* stored socket that is open and has shown no failure.
C23_FlagNeverStale ==
    (\E t \in Tasks : pc[t] \notin {"idle", "done"}) =>
        /\ is_connected => (~CloseStarted(websocket) /\ link # "failed")
        /\ (websocket # None /\ link = "up" /\ ~CloseStarted(websocket))
           => is_connected

\* ----------------------------------------------------------------- C24
\* The sockets the transport has opened for the Connection and that no
\* completed close has released.
Unclosed == (1..sock_count) \ closed

\* C24: at no time does more than one socket opened by the Connection remain
\* unclosed: a socket is closed before the next one is opened, the socket
\* whose write/read failed included.
C24_OneSocketUnclosed == Cardinality(Unclosed) <= 1

\* ----------------------------------------------------------------- C25
\* C25: the retried write/read of a send()/recv() that has reconnected is
\* issued on the socket the most recent successful transport connect has
\* returned, which is the stored one, and never on the socket of the
\* write/read that failed.
C25_RetryOnNewSocket ==
    \A t \in Tasks :
        (op[t] \in {"send", "recv"} /\ Len(log[t]) > 1 /\ Last(log[t]).call = op[t])
        => /\ Last(log[t]).sock = sock_count
           /\ Last(log[t]).sock = websocket
           /\ Last(log[t]).sock # log[t][1].sock
           /\ Last(log[t]).sock \notin closed

\* A recv() retried on socket 2 after its first read failed on socket 1.
C25_Witness ==
    \E t \in Tasks :
        /\ Done(t, "recv") /\ exc[t] = "none"
        /\ Len(log[t]) > 1
        /\ log[t][1].sock = 1 /\ Last(log[t]).sock = 2

\* ----------------------------------------------------------------- C26
\* The awaited transport operation of task t completes in this step.
Completes(t) == pc[t] \notin {"idle", "done"} /\ log'[t] # log[t]

\* The result of the transport operation of task t that completes in this step.
Result(t) == log'[t][Len(log[t])].res

\* In this step task t calls a method of the Client or enters/leaves its scope.
Calls(t) == pc[t] \in {"idle", "done"} /\ pc'[t] \notin {"idle"} /\ op'[t] # op[t]

\* C26: the connected flag becomes true only when a transport connect
\* succeeds (in connect() or inside the reconnect loop), and it is true after
\* every such success; it becomes false only when the close of a
\* disconnect() completes or the first write/read of a send()/recv() fails
\* with a transport error, and it is false after each of these.  A failed
\* connect, a failed close, a connect() or disconnect() that returns at
\* once, a rejected send()/recv(), a successful write/read and the end of a
\* retry leave the flag as it is.
C26_FlagTransitions ==
    [][\A t \in Tasks :
          /\ Completes(t) =>
                CASE pc[t] = "L26" /\ Result(t) = "ok" -> is_connected'
                  [] pc[t] = "L36" /\ Result(t) = "ok" -> ~is_connected'
                  [] pc[t] \in {"L45", "L57"} /\ Result(t) = "WebSocketException"
                        -> ~is_connected'
                  [] OTHER -> is_connected' = is_connected
          /\ Calls(t) => is_connected' = is_connected
          /\ (\A u \in Tasks : ~Completes(u)) => is_connected' = is_connected]_vars

\* Every transition of the flag has happened: set by a connect, cleared by a
\* failed write, set again by the loop, cleared by a close.
C26_Witness ==
    \E t \in Tasks :
        /\ Done(t, "disconnect") /\ Len(log[t]) = 1 /\ log[t][1].res = "ok"
        /\ ~is_connected
        /\ link = "closed"
        /\ call_count["connect"] = 2 /\ call_count["send"] = 2
        /\ closed = {2}

\* ----------------------------------------------------------------- C27
\* The tasks whose transport connect is in flight.
Connecting == {t \in Tasks : pc[t] = "L26"}

\* C27: the transport connect is never invoked while another transport
\* connect of the Connection is in flight, so two connect() calls started as
\* concurrent tasks on a disconnected Connection make one transport connect
\* between them.
C27_OneConnectInFlight ==
    /\ Cardinality(Connecting) <= 1
    /\ (\A t \in Tasks : method[t] = "connect")
       => Cardinality({t \in Tasks : log[t] # <<>>}) <= 1

\* ----------------------------------------------------------------- C28
\* The retry of the send()/recv() of task t has failed and the call has
\* raised the error of the transport as it is.
RetryFailed(t) ==
    /\ pc[t] = "done" /\ op[t] \in {"send", "recv"}
    /\ Retried(log[t], op[t])
    /\ Last(log[t]).res # "ok"

\* A retry has failed with a transport error and nothing has touched the
\* connection since: the flag is true although the last write/read failed.
AfterFailedRetry == is_connected /\ link = "failed"

\* When a send()/recv() has raised the error of its failed retry, the flag
\* is true and the stored socket is the reconnected one.
C28_StillConnected ==
    \A t \in Tasks :
        RetryFailed(t) =>
            /\ exc[t] = Last(log[t]).res
            /\ is_connected
            /\ websocket = Last(log[t]).sock
            /\ websocket = sock_count
            /\ websocket # log[t][1].sock

\* The call that follows a failed retry: a send()/recv() is not rejected, it
\* issues its write/read on the reconnected socket; a disconnect() issues the
\* close of the reconnected socket.
C28_FollowingCall ==
    \A t \in Tasks :
        (AfterFailedRetry /\ pc[t] = "idle" /\ pc'[t] # "idle") =>
            /\ op'[t] \in {"send", "recv"} =>
                /\ pc'[t] = (IF op'[t] = "send" THEN "L45" ELSE "L57")
                /\ Last(log'[t]).call = op'[t]
                /\ Last(log'[t]).sock = sock_count
            /\ op'[t] = "disconnect" =>
                /\ pc'[t] = "L36"
                /\ Last(log'[t]).call = "close"
                /\ Last(log'[t]).sock = sock_count

\* C28: after a send()/recv() has raised the unwrapped transport error of
\* its failed retry, the connected flag is true and the stored socket is the
\* reconnected one; a following send()/recv() is not rejected as not
\* connected but issues its write/read, and a following disconnect() closes
\* the reconnected socket.
C28_ConnectedAfterFailedRetry == []C28_StillConnected /\ [][C28_FollowingCall]_vars

\* A disconnect() that follows a failed retry is closing the reconnected socket.
C28_Witness ==
    \E t \in Tasks :
        /\ op[t] = "disconnect" /\ pc[t] = "L36"
        /\ AfterFailedRetry
        /\ Last(log[t]).call = "close" /\ Last(log[t]).sock = 2
        /\ websocket = 2
        /\ api_calls = 3

\* ----------------------------------------------------------------- C29
\* The connect() of __aenter__ has failed for task t.
EntryFailed(t) == scope[t] = "enter" /\ pc[t] = "done" /\ exc[t] # "none"

\* When the connect() of the scope entry has failed, the scope has done
\* nothing but that connect: the error is the one that leaves the scope and
\* the Connection is disconnected.
C29_EntryFailure ==
    \A t \in Tasks :
        EntryFailed(t) =>
            /\ Propagated(t) = exc[t]
            /\ scope_log[t] = <<"connect">>
            /\ method[t] = "__aenter__" /\ op[t] = "connect"
            /\ Len(log[t]) = 1 /\ OnlyCalls(log[t], "connect")
            /\ exc[t] = ConnectRaises(log[t][1].res)
            /\ ~is_connected

\* The scope whose entry failed is left at once: no body, no disconnect(),
\* no transport operation.
C29_LeftAtOnce ==
    \A t \in Tasks :
        EntryFailed(t) =>
            /\ scope'[t] = "none"
            /\ pc'[t] = "idle"
            /\ Untouched

\* C29: if connect() fails on entry to the scope of the Client, the error
\* propagates to the caller, the body is never executed, disconnect() is not
\* called (no close is issued), and the Connection is left disconnected.
C29_FailedEntrySkipsExit == []C29_EntryFailure /\ [][C29_LeftAtOnce]_vars

\* The connect of a scope entry has been refused.
C29_Witness ==
    \E t \in Tasks :
        /\ EntryFailed(t)
        /\ exc[t] = "ConnectionError"
        /\ call_count["connect"] = 1 /\ call_count["close"] = 0
        /\ ~is_connected

\* ----------------------------------------------------------------- C30
\* The close of the disconnect() of task t has raised.
CloseFailed(t) ==
    /\ Done(t, "disconnect")
    /\ Len(log[t]) = 1
    /\ log[t][1].res \notin {"ok", "pending"}

\* When the close of a disconnect() has raised, the error is the one the
\* call raises, the flag is still true, and the stored socket is still the
\* one whose close was attempted; it has not been closed.
C30_CloseFailure ==
    \A t \in Tasks :
        CloseFailed(t) =>
            /\ exc[t] = log[t][1].res
            /\ is_connected
            /\ websocket = log[t][1].sock
            /\ websocket # None
            /\ websocket \notin closed

\* A disconnect() on a Connection whose flag is true issues the close of the
\* stored socket, also when an earlier close of it has raised.
C30_ClosesAgain ==
    \A t \in Tasks :
        (Starts(t, "disconnect") /\ is_connected) =>
            /\ pc'[t] = "L36"
            /\ Last(log'[t]).call = "close"
            /\ Last(log'[t]).sock = websocket
            /\ call_count'["close"] = call_count["close"] + 1
            /\ UNCHANGED conn_vars

\* C30: if the transport close raises during disconnect() on a connected
\* Connection, the error propagates to the caller and the state of the
\* Connection is unchanged (connected flag true, same socket), so that a
\* later disconnect() attempts the close again.
C30_FailedCloseKeepsState == []C30_CloseFailure /\ [][C30_ClosesAgain]_vars

\* A second disconnect() is closing the socket whose first close has raised.
C30_Witness ==
    \E t \in Tasks :
        /\ op[t] = "disconnect" /\ pc[t] = "L36"
        /\ Last(log[t]).sock = 1
        /\ call_count["close"] = 2
        /\ closed = {}
        /\ sock_count = 1
        /\ is_connected

====
